---- MODULE Spec2Model ----
(***************************************************************************)
(* Model of src/app.py: the Blast Furnace-2 torpedo dispatch dashboard.    *)
(* One run of the script is modelled as a sequence of steps: load_data,    *)
(* the widgets that produce the filter criteria, the date filter with its  *)
(* no-data stop, the torpedo and cast filters, the per-day serial number,  *)
(* the KPI cards and the table/charts.                                     *)
(*                                                                         *)
(* Text is a sequence of one-character strings.  Weights are kept in       *)
(* tenths of a tonne.  A timestamp is day * TicksPerDay + time-of-day.     *)
(***************************************************************************)
EXTENDS Integers, Sequences, FiniteSets, TLC

VARIABLES
    headers,        \* the spreadsheet's header row (sequence of texts)
    raw,            \* the spreadsheet's data rows (sequence of rows of cells)
    pc,             \* position of the script
    colmap,         \* load_data's cols: field number -> column index, 0 for None
    df,             \* result of load_data(): sequence of canonical records
    messages,       \* st.error / st.warning messages issued so far
    start_date,     \* timestamp lower bound (line 132 / 139)
    end_date,       \* timestamp upper bound (line 133 / 140)
    torpedo_filter, \* set of selected torpedo identifiers (line 146)
    cast_search,    \* text typed in the Cast ID box (line 152)
    filtered,       \* the frame named filtered (lines 155-183)
    kpi,            \* the four KPI cards (lines 194-209)
    display         \* the table and the stacked chart's frame (lines 211-259)

vars == << headers, raw, pc, colmap, df, messages, start_date, end_date,
           torpedo_filter, cast_search, filtered, kpi, display >>

----------------------------------------------------------------------------
(* Bounds of the model *)

MaxRows == 2

MaxDay == 2

TicksPerDay == 2

----------------------------------------------------------------------------
(* Text helpers *)

LowerLetters == << "a","b","c","d","e","f","g","h","i","j","k","l","m",
                   "n","o","p","q","r","s","t","u","v","w","x","y","z" >>

UpperLetters == << "A","B","C","D","E","F","G","H","I","J","K","L","M",
                   "N","O","P","Q","R","S","T","U","V","W","X","Y","Z" >>

Digits == << "0","1","2","3","4","5","6","7","8","9" >>

\* str.upper on one character
UpperChar(c) ==
    IF \E i \in 1..26 : LowerLetters[i] = c
    THEN UpperLetters[CHOOSE i \in 1..26 : LowerLetters[i] = c]
    ELSE c

\* case folding of one character, as re.IGNORECASE compares
LowerChar(c) ==
    IF \E i \in 1..26 : UpperLetters[i] = c
    THEN LowerLetters[CHOOSE i \in 1..26 : UpperLetters[i] = c]
    ELSE c

Upper(s) == [i \in 1..Len(s) |-> UpperChar(s[i])]

RECURSIVE LStrip(_)
LStrip(s) == IF s # << >> /\ Head(s) = " " THEN LStrip(Tail(s)) ELSE s

RECURSIVE RStrip(_)
RStrip(s) ==
    IF s # << >> /\ s[Len(s)] = " " THEN RStrip(SubSeq(s, 1, Len(s) - 1)) ELSE s

\* str.strip
Strip(s) == RStrip(LStrip(s))

\* Python's  key in c  on strings
Contains(key, c) ==
    \E i \in 1..(Len(c) - Len(key) + 1) : SubSeq(c, i, i + Len(key) - 1) = key

IsDigit(c) == \E i \in 1..10 : Digits[i] = c

DigitVal(c) == (CHOOSE i \in 1..10 : Digits[i] = c) - 1

AllDigits(s) == s # << >> /\ \A i \in 1..Len(s) : IsDigit(s[i])

RECURSIVE DigitsVal(_)
DigitsVal(s) ==
    IF s = << >> THEN 0
    ELSE 10 * DigitsVal(SubSeq(s, 1, Len(s) - 1)) + DigitVal(s[Len(s)])

\* str() of a non-negative integer
RECURSIVE IntToStr(_)
IntToStr(n) ==
    IF n < 10 THEN << Digits[n + 1] >>
    ELSE IntToStr(n \div 10) \o << Digits[(n % 10) + 1] >>

RECURSIVE SeqSum(_)
SeqSum(s) == IF s = << >> THEN 0 ELSE Head(s) + SeqSum(Tail(s))

----------------------------------------------------------------------------
(* Spreadsheet cells *)

DateCell(day, tod) == [kind |-> "date", s |-> << >>, n |-> day * TicksPerDay + tod]
TextCell(s)        == [kind |-> "text", s |-> s, n |-> 0]
NumCell(v10)       == [kind |-> "num", s |-> << >>, n |-> v10]
EmptyCell          == [kind |-> "empty", s |-> << >>, n |-> 0]

----------------------------------------------------------------------------
(* Values held in a frame column *)

NaT        == [nat |-> TRUE, ts |-> 0]
Stamp(t)   == [nat |-> FALSE, ts |-> t]

NaN        == [nan |-> TRUE, v |-> 0]
Float(v10) == [nan |-> FALSE, v |-> v10]

\* pd.to_datetime(cell, errors="coerce") for the cells a Date column holds here:
\* spreadsheet datetimes, blank cells and text that is no date
ToDatetime(cell) ==
    CASE cell.kind = "date"  -> Stamp(cell.n)
      [] cell.kind = "empty" -> NaT
      [] cell.kind = "text"  -> NaT

\* float(text) for decimal text with at most one fractional digit (the model's
\* weights are tenths of a tonne); any other text does not parse
ParseFloat(s) ==
    IF AllDigits(s) THEN Float(10 * DigitsVal(s))
    ELSE IF /\ Len(s) >= 3
            /\ s[Len(s) - 1] = "."
            /\ AllDigits(SubSeq(s, 1, Len(s) - 2))
            /\ IsDigit(s[Len(s)])
         THEN Float(10 * DigitsVal(SubSeq(s, 1, Len(s) - 2)) + DigitVal(s[Len(s)]))
         ELSE NaN

\* pd.to_numeric(cell, errors="coerce")
ToNumeric(cell) ==
    CASE cell.kind = "num"   -> Float(cell.n)
      [] cell.kind = "text"  -> ParseFloat(Strip(cell.s))
      [] cell.kind = "empty" -> NaN

\* int(text) succeeds exactly on (whitespace-padded) digit strings here
IntParses(s) == AllDigits(Strip(s))

NAText == << "<", "N", "A", ">" >>

NanText == << "n", "a", "n" >>

\* Series.astype("Int64") on the Torpedo No column.  A numeric column converts
\* when every number is integer-valued; a text column is converted with int()
\* cell by cell; a column mixing numbers and text is refused.  Blank cells
\* become <NA>.  canCast = FALSE stands for the TypeError / ValueError raised.
ColumnKinds(col) == { col[i].kind : i \in 1..Len(col) } \ { "empty" }

CanCastInt64(col) ==
    \/ ColumnKinds(col) = { }
    \/ /\ ColumnKinds(col) = { "num" }
       /\ \A i \in 1..Len(col) : col[i].kind = "num" => col[i].n % 10 = 0
    \/ /\ ColumnKinds(col) = { "text" }
       /\ \A i \in 1..Len(col) : col[i].kind = "text" => IntParses(col[i].s)

\* the element of the Int64 column: [na, v]
AsInt64(cell) ==
    CASE cell.kind = "num"   -> [na |-> FALSE, v |-> cell.n \div 10]
      [] cell.kind = "text"  -> [na |-> FALSE, v |-> DigitsVal(Strip(cell.s))]
      [] cell.kind = "empty" -> [na |-> TRUE, v |-> 0]

\* .astype(str) on an Int64 element
Int64ToStr(x) == IF x.na THEN NAText ELSE IntToStr(x.v)

\* line 115
TorpedoId(cell) == Int64ToStr(AsInt64(cell))

\* .astype(str) on a Cast ID element (line 175): a blank cell is NaN
CastText(cell) == IF cell.kind = "empty" THEN NanText ELSE cell.s

----------------------------------------------------------------------------
(* load_data, lines 80-117 *)

\* line 82
NormalizedColumns(h) == [i \in 1..Len(h) |-> Upper(Strip(h[i]))]

\* lines 84-88: index of the first column whose name contains key, 0 for None
find_col(columns, key) ==
    IF \E i \in 1..Len(columns) : Contains(key, columns[i])
    THEN CHOOSE i \in 1..Len(columns) :
            /\ Contains(key, columns[i])
            /\ \A j \in 1..(i - 1) : ~Contains(key, columns[j])
    ELSE 0

\* lines 90-97, in dict order
FieldNames == << "Date", "Cast ID", "Torpedo No", "Gross (t)", "Tare (t)", "Net (t)" >>

FieldKeys == << << "D","A","T","E" >>, << "C","A","S","T" >>,
                << "T","O","R","P","E","D","O" >>, << "G","R","O","S","S" >>,
                << "T","A","R","E" >>, << "N","E","T" >> >>

cols(h) == [k \in 1..6 |-> find_col(NormalizedColumns(h), FieldKeys[k])]

MissingFields(h) == { k \in 1..6 : cols(h)[k] = 0 }

\* lines 99-102: the loop stops the script at the first field without a column
FirstMissing(h) == CHOOSE k \in MissingFields(h) : \A j \in MissingFields(h) : k <= j

ReportedMissing(h) == << FieldNames[FirstMissing(h)] >>

\* lines 104-112: one record of clean; idx is the frame's index label
CleanRow(h, rows, i) ==
    [ idx   |-> i,
      Date  |-> ToDatetime(rows[i][cols(h)[1]]),
      cast  |-> rows[i][cols(h)[2]],
      torp  |-> TorpedoId(rows[i][cols(h)[3]]),
      gross |-> ToNumeric(rows[i][cols(h)[4]]),
      tare  |-> ToNumeric(rows[i][cols(h)[5]]),
      net   |-> ToNumeric(rows[i][cols(h)[6]]),
      sno   |-> 0 ]

clean(h, rows) == [i \in 1..Len(rows) |-> CleanRow(h, rows, i)]

\* dropna() without the subset: a row with any NaN weight is dropped too
DropRowAnyNaN(r) == r.Date.nat \/ r.gross.nan \/ r.tare.nan \/ r.net.nan

\* line 117: dropna(subset=["Date"])
DropRow(r) == r.Date.nat

RECURSIVE dropna(_)
dropna(frame) ==
    IF frame = << >> THEN << >>
    ELSE IF DropRow(Head(frame)) THEN dropna(Tail(frame))
         ELSE << Head(frame) >> \o dropna(Tail(frame))

TorpedoColumn(h, rows) == [i \in 1..Len(rows) |-> rows[i][cols(h)[3]]]

ErrorMsg(names) == [level |-> "error", text |-> "Missing column in Excel", fields |-> names, day |-> 0]

LoadData ==
    /\ pc = "load"
    /\ colmap' = cols(headers)
    /\ IF MissingFields(headers) # { }
       THEN /\ messages' = Append(messages, ErrorMsg(ReportedMissing(headers)))
            /\ pc' = "load_stopped"
            /\ df' = df
       ELSE IF ~CanCastInt64(TorpedoColumn(headers, raw))
            THEN /\ pc' = "load_fault"
                 /\ UNCHANGED << messages, df >>
            ELSE /\ df' = dropna(clean(headers, raw))
                 /\ pc' = "widgets"
                 /\ UNCHANGED messages
    /\ UNCHANGED << headers, raw, start_date, end_date, torpedo_filter,
                    cast_search, filtered, kpi, display >>

----------------------------------------------------------------------------
(* Widgets, lines 121-152 *)

\* pd.to_datetime(date): midnight of the chosen day
Midnight(day) == day * TicksPerDay

\* Series.dt.date
CalendarDay(ts) == ts \div TicksPerDay

\* line 148: the multiselect's options
TorpedoOptions(frame) == { frame[i].torp : i \in 1..Len(frame) }

\* texts typed in the Cast ID box
CastSearches == { << >>, << "c" >>, << "." >>, << "n" >> }

NoKpi == [shown |-> FALSE, heading |-> [single |-> FALSE, from |-> 0, to |-> 0],
          casts |-> 0, torpedos |-> 0, total_net |-> << >>,
          mean |-> NaN, avg_net |-> << >>]

NoDisplay == [shown |-> FALSE, table |-> << >>, stack |-> { }]

\* lines 130-152.  An empty frame makes df["Date"].min() NaT as the default of
\* st.date_input; whether the widget accepts it is left open.
SelectCriteria ==
    /\ pc = "widgets"
    /\ \/ /\ df = << >>
          /\ pc' = "widget_fault"
          /\ UNCHANGED << start_date, end_date, torpedo_filter, cast_search >>
       \/ \E mode \in { "Single Day", "Date Range" } :
          \E d1 \in 1..MaxDay, d2 \in 1..MaxDay :
          \E tf \in SUBSET TorpedoOptions(df), cs \in CastSearches :
             /\ IF mode = "Single Day"
                THEN /\ d2 = d1
                     /\ start_date' = Midnight(d1)
                     /\ end_date' = Midnight(d1)
                ELSE /\ d1 <= d2
                     /\ start_date' = Midnight(d1)
                     /\ end_date' = Midnight(d2)
             /\ torpedo_filter' = tf
             /\ cast_search' = cs
             /\ pc' = "filter"
    /\ UNCHANGED << headers, raw, colmap, df, messages, filtered, kpi, display >>

----------------------------------------------------------------------------
(* Filters, lines 155-176 *)

\* lines 157-160
InDateBound(r, lo, hi) == r.Date.ts >= lo /\ r.Date.ts <= hi

DateFiltered(frame, lo, hi) ==
    LET Keep(r) == InDateBound(r, lo, hi) IN SelectSeq(frame, Keep)

WarningMsg(lo, hi) ==
    IF lo = hi
    THEN [level |-> "warning", text |-> "No data available for",
          fields |-> << >>, day |-> CalendarDay(lo)]
    ELSE [level |-> "warning", text |-> "No data available for the selected date range",
          fields |-> << >>, day |-> 0]

\* lines 155-168
DateFilter ==
    /\ pc = "filter"
    /\ filtered' = DateFiltered(df, start_date, end_date)
    /\ IF filtered' = << >>
       THEN /\ messages' = Append(messages, WarningMsg(start_date, end_date))
            /\ pc' = "nodata_stopped"
       ELSE /\ messages' = messages
            /\ pc' = "filter_more"
    /\ UNCHANGED << headers, raw, colmap, df, start_date, end_date, torpedo_filter,
                    cast_search, kpi, display >>

\* line 171: isin
TorpedoFiltered(frame, tf) ==
    LET Keep(r) == r.torp \in tf IN SelectSeq(frame, Keep)

\* re.search(pat, text, re.IGNORECASE) for patterns made of literal characters
\* and the wildcard "."
MatchAt(pat, text, i) ==
    \A k \in 1..Len(pat) :
        \/ pat[k] = "."
        \/ LowerChar(pat[k]) = LowerChar(text[i + k - 1])

RegexSearch(pat, text) ==
    \E i \in 1..(Len(text) - Len(pat) + 1) : MatchAt(pat, text, i)

\* lines 174-176: str.contains(cast_search, case=False)
CastFiltered(frame, pat) ==
    LET Keep(r) == RegexSearch(pat, CastText(r.cast)) IN SelectSeq(frame, Keep)

\* lines 170-176
OtherFilters ==
    /\ pc = "filter_more"
    /\ LET f1 == IF torpedo_filter # { }
                 THEN TorpedoFiltered(filtered, torpedo_filter) ELSE filtered
           f2 == IF cast_search # << >>
                 THEN CastFiltered(f1, cast_search) ELSE f1
       IN  filtered' = f2
    /\ pc' = "serial"
    /\ UNCHANGED << headers, raw, colmap, df, messages, start_date, end_date,
                    torpedo_filter, cast_search, kpi, display >>

----------------------------------------------------------------------------
(* Per-day serial number, lines 179-183 *)

\* line 179: sort_values("Date") orders by the timestamp.  The default sort kind
\* is an introsort that finishes partitions of up to 16 elements by insertion;
\* frames of the sizes explored here are sorted by that insertion pass alone,
\* which leaves rows with equal timestamps in their previous order.
SortKey(r) == r.Date.ts

InsertRow(sorted, r) ==
    LET k == Cardinality({ i \in 1..Len(sorted) : SortKey(sorted[i]) <= SortKey(r) })
    IN  SubSeq(sorted, 1, k) \o << r >> \o SubSeq(sorted, k + 1, Len(sorted))

RECURSIVE sort_values(_)
sort_values(frame) ==
    IF frame = << >> THEN << >>
    ELSE InsertRow(sort_values(SubSeq(frame, 1, Len(frame) - 1)), frame[Len(frame)])

\* groupby("Date") without .dt.date: groups by the timestamp
GroupKeyStamp(r) == r.Date.ts

\* line 181: the groupby key
GroupKey(r) == CalendarDay(r.Date.ts)

\* line 182: cumcount() + 1
CumCount(frame, i) == Cardinality({ j \in 1..(i - 1) : GroupKey(frame[j]) = GroupKey(frame[i]) })

SerialOf(frame, i) == CumCount(frame, i) + 1

WithSerial(frame) == [i \in 1..Len(frame) |-> [frame[i] EXCEPT !.sno = SerialOf(frame, i)]]

SerialNumber ==
    /\ pc = "serial"
    /\ filtered' = WithSerial(sort_values(filtered))
    /\ pc' = "kpi"
    /\ UNCHANGED << headers, raw, colmap, df, messages, start_date, end_date,
                    torpedo_filter, cast_search, kpi, display >>

----------------------------------------------------------------------------
(* Date context and KPI cards, lines 185-209 *)

\* Series.nunique(): distinct values, NaN left out
CastNunique(frame) ==
    Cardinality({ frame[i].cast.s : i \in { j \in 1..Len(frame) : frame[j].cast.kind # "empty" } })

\* the Torpedo No column holds text only (line 115), so every value counts
TorpedoNunique(frame) == Cardinality({ frame[i].torp : i \in 1..Len(frame) })

\* the values sum() and mean() see: NaN skipped
RECURSIVE Present(_)
Present(col) ==
    IF col = << >> THEN << >>
    ELSE IF Head(col).nan THEN Present(Tail(col))
         ELSE << Head(col).v >> \o Present(Tail(col))

NetColumn(frame) == [i \in 1..Len(frame) |-> frame[i].net]

\* Series.sum(): 0.0 over no values
SeriesSum(col) == Float(SeqSum(Present(col)))

\* round-half-even of a / b to an integer
RoundDiv(a, b) ==
    LET q == a \div b
        r == a % b
    IN  IF 2 * r < b THEN q
        ELSE IF 2 * r > b THEN q + 1
        ELSE IF q % 2 = 0 THEN q ELSE q + 1

\* Series.mean(): NaN over no values.  The quotient is kept as the tenth
\* nearest to it, which is all the card shows.
SeriesMean(col) ==
    IF Present(col) = << >> THEN NaN
    ELSE Float(RoundDiv(SeqSum(Present(col)), Len(Present(col))))

RECURSIVE WithCommas(_)
WithCommas(ds) ==
    IF Len(ds) <= 3 THEN ds
    ELSE WithCommas(SubSeq(ds, 1, Len(ds) - 3)) \o << "," >>
         \o SubSeq(ds, Len(ds) - 2, Len(ds))

\* format(x, ".1f") and format(x, ",.1f") of a non-negative float
Format1f(x, commas) ==
    IF x.nan THEN NanText
    ELSE (IF commas THEN WithCommas(IntToStr(x.v \div 10)) ELSE IntToStr(x.v \div 10))
         \o << "." >> \o << Digits[(x.v % 10) + 1] >>

UnitText == << " ", "t" >>

\* lines 186-189: "Data for <day>" or "Data from <day> to <day>"
DateContext(lo, hi) ==
    [single |-> lo = hi, from |-> CalendarDay(lo), to |-> CalendarDay(hi)]

KpiOf(frame) ==
    [ shown     |-> TRUE,
      heading   |-> DateContext(start_date, end_date),
      casts     |-> CastNunique(frame),
      torpedos  |-> TorpedoNunique(frame),
      total_net |-> Format1f(SeriesSum(NetColumn(frame)), TRUE) \o UnitText,
      mean      |-> SeriesMean(NetColumn(frame)),
      avg_net   |-> Format1f(SeriesMean(NetColumn(frame)), FALSE) \o UnitText ]

KpiCards ==
    /\ pc = "kpi"
    /\ kpi' = KpiOf(filtered)
    /\ pc' = "table"
    /\ UNCHANGED << headers, raw, colmap, df, messages, start_date, end_date,
                    torpedo_filter, cast_search, filtered, display >>

----------------------------------------------------------------------------
(* Table and charts, lines 211-259 *)

\* lines 214-219
DisplayRow(r) ==
    [ sno |-> r.sno, Date |-> CalendarDay(r.Date.ts), cast |-> r.cast,
      torp |-> r.torp, gross |-> r.gross, tare |-> r.tare, net |-> r.net ]

display_df(frame) == [i \in 1..Len(frame) |-> DisplayRow(frame[i])]

\* lines 245-247: groupby("Torpedo No").sum()
GroupRows(frame, t) == LET Keep(r) == r.torp = t IN SelectSeq(frame, Keep)

stack_df(frame) ==
    { [ torp  |-> t,
        gross |-> SeriesSum([i \in 1..Len(GroupRows(frame, t)) |-> GroupRows(frame, t)[i].gross]).v,
        tare  |-> SeriesSum([i \in 1..Len(GroupRows(frame, t)) |-> GroupRows(frame, t)[i].tare]).v,
        net   |-> SeriesSum(NetColumn(GroupRows(frame, t))).v ] : t \in TorpedoOptions(frame) }

TableAndCharts ==
    /\ pc = "table"
    /\ display' = [shown |-> TRUE, table |-> display_df(filtered), stack |-> stack_df(filtered)]
    /\ pc' = "done"
    /\ UNCHANGED << headers, raw, colmap, df, messages, start_date, end_date,
                    torpedo_filter, cast_search, filtered, kpi >>

\* a widget interaction re-executes the script on a fresh page; load_data() is
\* served from the cache (line 79) and the widgets still hold their values
\* until SelectCriteria reads the new ones
Rerun ==
    /\ pc \in { "done", "nodata_stopped" }
    /\ pc' = "widgets"
    /\ messages' = << >>
    /\ filtered' = << >>
    /\ kpi' = NoKpi
    /\ display' = NoDisplay
    /\ UNCHANGED << headers, raw, colmap, df, start_date, end_date,
                    torpedo_filter, cast_search >>

----------------------------------------------------------------------------
(* The spreadsheets explored *)

H_date  == << " ", "D", "a", "t", "e" >>
H_cast  == << "c", "a", "s", "t", " ", "i", "d" >>
H_torp  == << "T", "O", "R", "P", "E", "D", "O" >>
H_gross == << "G", "r", "o", "s", "s" >>
H_tare  == << "T", "A", "R", "E", " " >>
H_net   == << "n", "e", "t", "(", "t", ")" >>
H_day   == << "D", "a", "y" >>
H_heat  == << "H", "e", "a", "t" >>
H_wt    == << "W", "t" >>

HeaderLayouts ==
    { << H_date, H_cast, H_torp, H_gross, H_tare, H_net >>,
      << H_day,  H_cast, H_torp, H_gross, H_tare, H_net >>,
      << H_day,  H_heat, H_torp, H_gross, H_tare, H_net >>,
      << H_date, H_cast, H_torp, H_gross, H_tare, H_wt >> }

T_C1 == TextCell(<< "C", "1" >>)
T_c2 == TextCell(<< "c", "2" >>)
T_X3 == TextCell(<< "X", "3" >>)
T_x  == TextCell(<< "x" >>)

\* cells in header order: date, cast, torpedo, gross, tare, net
SampleRows ==
    { << DateCell(1, 0), T_C1, NumCell(50), NumCell(500), NumCell(100), NumCell(400) >>,
      << DateCell(1, 1), T_c2, NumCell(50), NumCell(550), NumCell(100), NumCell(450) >>,
      << DateCell(2, 0), T_X3, NumCell(70), T_x, NumCell(120), TextCell(<< "4", "8", ".", "5" >>) >>,
      << T_x,            T_C1, NumCell(50), NumCell(500), NumCell(100), NumCell(400) >>,
      << DateCell(1, 0), EmptyCell, EmptyCell, EmptyCell, EmptyCell, EmptyCell >>,
      << DateCell(2, 0), T_C1, TextCell(<< "5" >>), NumCell(500), NumCell(100), T_x >>,
      << DateCell(1, 0), T_c2, TextCell(<< "5", ".", "0" >>), NumCell(500), NumCell(100), NumCell(400) >> }

Tables == UNION { [1..n -> SampleRows] : n \in 0..MaxRows }

Init ==
    /\ headers \in HeaderLayouts
    /\ raw \in Tables
    /\ pc = "load"
    /\ colmap = [k \in 1..6 |-> 0]
    /\ df = << >>
    /\ messages = << >>
    /\ start_date = 0
    /\ end_date = 0
    /\ torpedo_filter = { }
    /\ cast_search = << >>
    /\ filtered = << >>
    /\ kpi = NoKpi
    /\ display = NoDisplay

Next ==
    \/ LoadData
    \/ SelectCriteria
    \/ DateFilter
    \/ OtherFilters
    \/ SerialNumber
    \/ KpiCards
    \/ TableAndCharts
    \/ Rerun

Spec == Init /\ [][Next]_vars

----------------------------------------------------------------------------
(* Properties *)

Loaded == pc \notin { "load", "load_stopped", "load_fault" }

Numbered == pc \in { "kpi", "table", "done" }

DateCol == colmap[1]
TorpCol == colmap[3]

\* the calendar-day bound of the criteria
DayInBound(r) ==
    /\ CalendarDay(start_date) <= CalendarDay(r.Date.ts)
    /\ CalendarDay(r.Date.ts) <= CalendarDay(end_date)

\* text contains pat as a literal substring, ignoring case
LiteralContains(pat, text) ==
    \E i \in 1..(Len(text) - Len(pat) + 1) :
        \A k \in 1..Len(pat) : LowerChar(pat[k]) = LowerChar(text[i + k - 1])

\* C1: no metric is computed over an empty filtered table: whenever the KPI
\* cards have been produced, the filtered table they were computed from has
\* at least one row (an empty result stops the script before them).
C1_NoMetricsOnEmpty == kpi.shown => filtered # << >>

\* C2: after the date filter, the kept records are exactly the loaded records
\* whose calendar day lies between the lower and the upper day, both
\* inclusive, whatever their time of day.
C2_DateBoundInclusive ==
    pc \in { "filter_more", "nodata_stopped" } =>
        { filtered[i].idx : i \in 1..Len(filtered) }
            = { df[i].idx : i \in { j \in 1..Len(df) : DayInBound(df[j]) } }

\* C3: after all filters, the filtered table is exactly the loaded records, in
\* load order and once each, that satisfy the date bound, the torpedo set
\* (empty = no restriction) and the case-insensitive literal cast substring
\* (empty = no restriction) together.
C3_Keep(r) ==
    /\ DayInBound(r)
    /\ torpedo_filter # { } => r.torp \in torpedo_filter
    /\ cast_search # << >> => LiteralContains(cast_search, CastText(r.cast))

C3_ExactConjunction == pc = "serial" => filtered = SelectSeq(df, C3_Keep)

\* C4: after sequence numbering, for every calendar day present the S.No
\* values of that day's records are exactly 1..k, k being the number of
\* filtered records of that day, without repeats, and the first record of
\* each day in table order has S.No 1.
DayRows(d) == { i \in 1..Len(filtered) : CalendarDay(filtered[i].Date.ts) = d }

C4_SerialPerDay ==
    Numbered =>
        /\ \A i \in 1..Len(filtered) :
              LET rows == DayRows(CalendarDay(filtered[i].Date.ts))
              IN  /\ { filtered[j].sno : j \in rows } = 1..Cardinality(rows)
                  /\ \A j \in rows : j # i => filtered[j].sno # filtered[i].sno
        /\ \A i \in 1..Len(filtered) :
              (i = 1 \/ CalendarDay(filtered[i - 1].Date.ts) # CalendarDay(filtered[i].Date.ts))
                  => filtered[i].sno = 1

C4_Witness ==
    /\ pc = "kpi"
    /\ Len(filtered) = 2
    /\ filtered[1].Date.ts # filtered[2].Date.ts
    /\ CalendarDay(filtered[1].Date.ts) = CalendarDay(filtered[2].Date.ts)
    /\ filtered[1].sno = 1
    /\ filtered[2].sno = 2

\* C5: the numbered table is ascending by calendar date and two records of
\* the same date keep their load order.
C5_StableDateOrder ==
    Numbered =>
        \A i, j \in 1..Len(filtered) :
            i < j =>
                /\ CalendarDay(filtered[i].Date.ts) <= CalendarDay(filtered[j].Date.ts)
                /\ CalendarDay(filtered[i].Date.ts) = CalendarDay(filtered[j].Date.ts)
                      => filtered[i].idx < filtered[j].idx

\* C6: when the load stops on missing columns, the error report names every
\* missing field, and nothing was loaded, filtered or rendered.
ReportedFields ==
    UNION { { messages[i].fields[k] : k \in 1..Len(messages[i].fields) } :
            i \in { m \in 1..Len(messages) : messages[m].level = "error" } }

C6_AllMissingReported ==
    pc = "load_stopped" =>
        /\ { m \in 1..Len(messages) : messages[m].level = "error" } # { }
        /\ ReportedFields = { FieldNames[k] : k \in MissingFields(headers) }
        /\ df = << >> /\ filtered = << >> /\ ~kpi.shown /\ ~display.shown

\* C7: every record of the loader's output has a valid date; a source row is
\* in the output exactly when its date parses (a non-numeric weight does not
\* exclude it), once and in source order, so the output is no longer than the
\* input; and with all columns present and a numeric torpedo column the load
\* completes whatever the dates and weights are.
DateParses(i) == raw[i][DateCol].kind = "date"

C7_LoaderOutput ==
    /\ Loaded =>
          /\ \A i \in 1..Len(df) : ~df[i].Date.nat
          /\ { df[i].idx : i \in 1..Len(df) } = { i \in 1..Len(raw) : DateParses(i) }
          /\ \A i, j \in 1..Len(df) : i < j => df[i].idx < df[j].idx
          /\ Len(df) <= Len(raw)
    /\ ( /\ pc # "load"
         /\ \A k \in 1..6 : colmap[k] # 0
         /\ \A i \in 1..Len(raw) : raw[i][TorpCol].kind = "num" /\ raw[i][TorpCol].n % 10 = 0 )
       => Loaded

C7_Witness ==
    /\ pc = "widgets"
    /\ Len(df) < Len(raw)
    /\ \E i \in 1..Len(df) : df[i].gross.nan /\ raw[df[i].idx][colmap[4]].kind = "text"

\* C8: the distinct torpedo count leaves out records whose source torpedo
\* cell is missing, and such a cell offers no selectable torpedo identifier.
TorpedoPresent(r) == raw[r.idx][TorpCol].kind # "empty"

C8_AbsentTorpedoNotCounted ==
    /\ kpi.shown =>
          kpi.torpedos = Cardinality({ filtered[i].torp :
                             i \in { j \in 1..Len(filtered) : TorpedoPresent(filtered[j]) } })
    /\ (Loaded /\ pc # "widgets") =>
          torpedo_filter \subseteq { df[i].torp :
                             i \in { j \in 1..Len(df) : TorpedoPresent(df[j]) } }

\* C9: when the filtered table has no present net value, the Avg Net card is
\* not NaN put through the number format.
C9_MeanUndefinedExplicit ==
    (kpi.shown /\ Present(NetColumn(filtered)) = << >>) =>
        /\ ~kpi.mean.nan
        /\ kpi.avg_net # NanText \o UnitText

\* C10: a torpedo column whose cells are integer-valued numbers, digit text or
\* digit text followed by ".0" loads without a fault and every loaded record
\* carries the digits of its integer as identifier.
IntegerForm(cell) ==
    \/ cell.kind = "num" /\ cell.n % 10 = 0
    \/ cell.kind = "text" /\ AllDigits(cell.s)
    \/ /\ cell.kind = "text"
       /\ Len(cell.s) >= 3
       /\ SubSeq(cell.s, Len(cell.s) - 1, Len(cell.s)) = << ".", "0" >>
       /\ AllDigits(SubSeq(cell.s, 1, Len(cell.s) - 2))

IntegerDigits(cell) ==
    IF cell.kind = "num" THEN IntToStr(cell.n \div 10)
    ELSE IF AllDigits(cell.s) THEN cell.s
    ELSE SubSeq(cell.s, 1, Len(cell.s) - 2)

C10_TorpedoNormalized ==
    ( /\ pc # "load"
      /\ \A k \in 1..6 : colmap[k] # 0
      /\ raw # << >>
      /\ \A i \in 1..Len(raw) : IntegerForm(raw[i][TorpCol]) )
    => /\ Loaded
       /\ \A i \in 1..Len(df) : df[i].torp = IntegerDigits(raw[df[i].idx][TorpCol])

====
